---- MODULE Spec2Model ----
(***************************************************************************)
(* Directory diagnostics of oh-my-claudecode (src/tools/diagnostics):      *)
(* the strategy dispatcher runDirectoryDiagnostics, the project type       *)
(* detector, the four external-process runners (tsc, go vet, cargo check,  *)
(* mypy / pylint) with their output parsers, and the result formatters.    *)
(*                                                                         *)
(* A tool's output stream is a sequence of lines; the empty sequence is    *)
(* the empty string.  A line is a record naming its shape and the fields   *)
(* the parsers' patterns capture.                                          *)
(***************************************************************************)
EXTENDS Integers, Sequences, FiniteSets, TLC

VARIABLES
    pc,                \* position of runDirectoryDiagnostics
    strategy,          \* the strategy argument
    pathKind,          \* what the directory argument names on disk right now
    markers,           \* project marker files present in the directory
    resolvedDirectory, \* realpathSync(directory), once computed
    calls,             \* components invoked so far, with their directory argument
    probes,            \* commandExists calls made so far, with their answers
    exec,              \* the external process launched by the runner, and how it ended
    toolResult,        \* what the runner (or the LSP aggregator) returned
    result,            \* what runDirectoryDiagnostics returned
    thrown,            \* the exception that escaped, if any
    lsp,               \* the locals of runLspAggregatedDiagnostics
    cachedExtensions   \* the module-level _cachedExtensions

vars == <<pc, strategy, pathKind, markers, resolvedDirectory, calls, probes,
          exec, toolResult, result, thrown, lsp, cachedExtensions>>

(***************************************************************************)
(* Bounds                                                                  *)
(***************************************************************************)
\* Largest number of output lines (stdout and stderr together) of one tool run.
MaxOut == 2

\* Largest number of plain source files in the root of the walked directory.
MaxFiles == 1

\* Largest number of direct calls of the extension cache's two functions.
MaxCalls == 4

(***************************************************************************)
(* Values                                                                  *)
(***************************************************************************)
Strategies == {"tsc", "go", "rust", "python", "lsp", "auto"}

PathKinds == {"dir", "file", "missing", "dangling"}

Markers == {"tsconfig.json", "go.mod", "Cargo.toml",
            "pyproject.toml", "requirements.txt", "setup.py"}

PythonMarkers == {"pyproject.toml", "requirements.txt", "setup.py"}

None == [none |-> TRUE]

directory == "given"

\* resolvedDirectory before realpathSync has returned.
Unresolved == "unresolved"

\* thrown while no exception has escaped.
NoException == "none"

RealPath == "real"

(***************************************************************************)
(* Output lines                                                            *)
(***************************************************************************)
Ext(file) ==
    CASE file \in {"src/index.ts", "src/utils.ts"} -> ".ts"
      [] file \in {"main.go", "pkg/util.go"} -> ".go"
      [] file \in {"main.py", "utils.py"} -> ".py"
      [] file \in {"stubs/api.pyi"} -> ".pyi"
      [] file \in {"src/main.rs", "src/lib.rs", "src/other.rs"} -> ".rs"
      [] OTHER -> ""

\* An empty or whitespace-only line.
Blank == [shape |-> "blank"]

\* A line no parser's pattern matches (banner, progress, stack trace).
Noise == [shape |-> "noise"]

\* file(line,col): sev code: text
TscLine(file, sev, code) ==
    [shape |-> "paren", file |-> file, line |-> 10, col |-> 5,
     sev |-> sev, code |-> code, text |-> "msg"]

\* file:line:col: tag: text [code]      (tag "" when the line has no tag;
\*                                        code "" when it has no bracket)
ColonLine(file, tag, code) ==
    [shape |-> "colon", file |-> file, line |-> 25, col |-> 12,
     tag |-> tag, code |-> code, text |-> "msg"]

\* JSON values of one cargo line, as far as parseRustOutput inspects them.
JNull == [t |-> "null"]

JScalar == [t |-> "scalar"]

JSpan(file, line, column, primary) ==
    [file_name |-> file, line_start |-> line, column_start |-> column,
     is_primary |-> primary]

\* The `spans` member of a message: an array, absent, or a value that is
\* neither (an object, a number, a string).
JSpans(spans) == [present |-> TRUE, array |-> TRUE, items |-> spans]

JNoSpans == [present |-> FALSE]

JBadSpans == [present |-> TRUE, array |-> FALSE]

JMessage(level, code, spans) ==
    [present |-> TRUE, level |-> level, code |-> code, message |-> "msg",
     spans |-> spans]

\* A `message` member that is absent or null.
JNoMessage == [present |-> FALSE]

JObject(reason, message) == [t |-> "object", reason |-> reason, message |-> message]

JsonLine(value) == [shape |-> "json", value |-> value]

(***************************************************************************)
(* JavaScript string helpers on streams                                    *)
(***************************************************************************)
\* a || b on strings: the empty string is falsy.
OrElse(a, b) == IF a # <<>> THEN a ELSE b

\* !output.trim()
TrimEmpty(output) == \A i \in 1..Len(output) : output[i].shape = "blank"

\* diagnostics.filter(d => d.severity === sev).length
CountSeverity(diagnostics, sev) ==
    Cardinality({i \in 1..Len(diagnostics) : diagnostics[i].severity = sev})

(***************************************************************************)
(* Results                                                                 *)
(***************************************************************************)
\* A TscResult, GoResult or RustResult without `skipped`.
ToolResult(success, diagnostics, errorCount, warningCount) ==
    [success |-> success, diagnostics |-> diagnostics, errorCount |-> errorCount,
     warningCount |-> warningCount, skipped |-> None]

\* A PythonResult: the same fields and `tool`.
WithTool(r, tool) ==
    [success |-> r.success, diagnostics |-> r.diagnostics, errorCount |-> r.errorCount,
     warningCount |-> r.warningCount, skipped |-> r.skipped, tool |-> tool]

\* The literal a runner returns when it has nothing to run; the reason is the
\* fixed phrase and the file or binary names it contains.
SkippedToolResult(why, names) ==
    [success |-> TRUE, diagnostics |-> <<>>, errorCount |-> 0, warningCount |-> 0,
     skipped |-> [why |-> why, names |-> names]]

\* The literal of a clean exit.
CleanToolResult == ToolResult(TRUE, <<>>, 0, 0)

\* The literal of a tool that failed without output.
CrashToolResult(code) ==
    ToolResult(FALSE,
               <<[file |-> ".", line |-> 0, column |-> 0, code |-> code,
                  message |-> "exited with errors but produced no diagnostic output",
                  severity |-> "error"]>>,
               1, 0)

\* An exception escaping a function that should have returned a result.
Throws(what) == [threw |-> what]

DidThrow(r) == "threw" \in DOMAIN r

(***************************************************************************)
(* Parsers                                                                 *)
(***************************************************************************)
TsCodes == {"TS2345", "TS6133"}

\* /^(.+)\((\d+),(\d+)\):\s+(error|warning)\s+(TS\d+):\s+(.+)$/gm
TscMatches(l) ==
    /\ l.shape = "paren"
    /\ l.sev \in {"error", "warning"}
    /\ l.code \in TsCodes

TscDiagnostic(l) ==
    [file |-> l.file, line |-> l.line, column |-> l.col, severity |-> l.sev,
     code |-> l.code, message |-> l.text]

\* Variant: every matched line is counted as an error.
parseTscOutput_AllCountedAsErrors(output) ==
    LET matched == SelectSeq(output, TscMatches)
        diagnostics == [i \in 1..Len(matched) |-> TscDiagnostic(matched[i])]
    IN  ToolResult(Len(diagnostics) = 0, diagnostics, Len(diagnostics), 0)

parseTscOutput(output) ==
    LET matched == SelectSeq(output, TscMatches)
        diagnostics == [i \in 1..Len(matched) |-> TscDiagnostic(matched[i])]
        errorCount == CountSeverity(diagnostics, "error")
        warningCount == CountSeverity(diagnostics, "warning")
    IN  ToolResult(errorCount = 0, diagnostics, errorCount, warningCount)

\* /^(.+?\.go):(\d+):(\d+):\s+(.+)$/gm
GoMatches(l) == l.shape = "colon" /\ Ext(l.file) = ".go"

\* Variant: the findings are classified as errors.
GoDiagnostic_AsError(l) ==
    [file |-> l.file, line |-> l.line, column |-> l.col,
     message |-> [tag |-> l.tag, text |-> l.text, code |-> l.code],
     severity |-> "error"]

GoDiagnostic(l) ==
    [file |-> l.file, line |-> l.line, column |-> l.col,
     message |-> [tag |-> l.tag, text |-> l.text, code |-> l.code],
     severity |-> "warning"]

parseGoOutput(output) ==
    LET matched == SelectSeq(output, GoMatches)
        diagnostics == [i \in 1..Len(matched) |-> GoDiagnostic(matched[i])]
    IN  ToolResult(Len(diagnostics) = 0, diagnostics, 0, Len(diagnostics))

\* /^(.+?\.py):(\d+):(\d+): (error|warning|note): (.+?)(?:\s+\[([^\]]+)\])?$/gm
MypyMatches(l) ==
    /\ l.shape = "colon"
    /\ Ext(l.file) = ".py"
    /\ l.tag \in {"error", "warning", "note"}

\* if (match[4] === 'note') continue;
MypyKept(l) == MypyMatches(l) /\ l.tag # "note"

MypyDiagnostic(l) ==
    [file |-> l.file, line |-> l.line, column |-> l.col,
     severity |-> IF l.tag = "error" THEN "error" ELSE "warning",
     message |-> l.text, code |-> l.code]

parseMypyOutput(output) ==
    LET matched == SelectSeq(output, MypyKept)
        diagnostics == [i \in 1..Len(matched) |-> MypyDiagnostic(matched[i])]
        errorCount == CountSeverity(diagnostics, "error")
        warningCount == CountSeverity(diagnostics, "warning")
    IN  WithTool(ToolResult(errorCount = 0, diagnostics, errorCount, warningCount), "mypy")

\* The tags of shape [A-Z]\d+, with their leading letter.
PylintCodes == {"E0001", "F0001", "W0611", "C0114", "R0903"}

Letter(code) ==
    CASE code = "E0001" -> "E"
      [] code = "F0001" -> "F"
      [] code = "W0611" -> "W"
      [] code = "C0114" -> "C"
      [] code = "R0903" -> "R"
      [] OTHER -> ""

\* /^(.+?\.py):(\d+):(\d+): ([A-Z]\d+): (.+)$/gm
PylintMatches(l) ==
    /\ l.shape = "colon"
    /\ Ext(l.file) = ".py"
    /\ l.tag \in PylintCodes

\* Variant: only E codes are errors.
PylintDiagnostic_FatalIsWarning(l) ==
    [file |-> l.file, line |-> l.line, column |-> l.col, code |-> l.tag,
     message |-> l.text,
     severity |-> IF Letter(l.tag) = "E" THEN "error" ELSE "warning"]

PylintDiagnostic(l) ==
    LET isError == Letter(l.tag) = "E" \/ Letter(l.tag) = "F"
    IN  [file |-> l.file, line |-> l.line, column |-> l.col, code |-> l.tag,
         message |-> l.text, severity |-> IF isError THEN "error" ELSE "warning"]

parsePylintOutput(output) ==
    LET matched == SelectSeq(output, PylintMatches)
        diagnostics == [i \in 1..Len(matched) |-> PylintDiagnostic(matched[i])]
        errorCount == CountSeverity(diagnostics, "error")
        warningCount == CountSeverity(diagnostics, "warning")
    IN  WithTool(ToolResult(errorCount = 0, diagnostics, errorCount, warningCount), "pylint")

\* What one line does to parseRustOutput's loop: "skip" (continue), "push"
\* (one diagnostic) or "throw" (a TypeError outside the try around JSON.parse).
RustStep(l) ==
    IF l.shape # "json" THEN "skip"                     \* blank, or JSON.parse throws
    ELSE LET msg == l.value IN
         IF msg.t = "null" THEN "throw"                 \* null.reason
         ELSE IF msg.t # "object" THEN "skip"           \* reason is undefined
         ELSE IF msg.reason # "compiler-message" THEN "skip"
         ELSE IF ~msg.message.present THEN "skip"
         ELSE IF msg.message.level \notin {"error", "warning"} THEN "skip"
         ELSE IF ~msg.message.spans.present THEN "skip"    \* spans?.find
         ELSE IF ~msg.message.spans.array THEN "throw"     \* find is not a function
         ELSE IF \E i \in 1..Len(msg.message.spans.items) :
                     msg.message.spans.items[i].is_primary
              THEN "push"
              ELSE "skip"

\* Variant: the first span is taken, primary or not.
PrimarySpan_FirstSpan(spans) == spans[1]

\* innerMessage.spans.find(s => s.is_primary)
PrimarySpan(spans) ==
    spans[CHOOSE i \in 1..Len(spans) :
              /\ spans[i].is_primary
              /\ \A j \in 1..(i - 1) : ~spans[j].is_primary]

RustPushes(l) == RustStep(l) = "push"

RustDiagnostic(l) ==
    LET innerMessage == l.value.message
        primarySpan == PrimarySpan(innerMessage.spans.items)
    IN  [severity |-> innerMessage.level, code |-> innerMessage.code,
         message |-> innerMessage.message, file |-> primarySpan.file_name,
         line |-> primarySpan.line_start, column |-> primarySpan.column_start]

parseRustOutput(output) ==
    IF \E i \in 1..Len(output) : RustStep(output[i]) = "throw"
    THEN Throws("TypeError")
    ELSE LET pushed == SelectSeq(output, RustPushes)
             diagnostics == [i \in 1..Len(pushed) |-> RustDiagnostic(pushed[i])]
             errorCount == CountSeverity(diagnostics, "error")
             warningCount == CountSeverity(diagnostics, "warning")
         IN  ToolResult(errorCount = 0, diagnostics, errorCount, warningCount)

(***************************************************************************)
(* External processes                                                      *)
(***************************************************************************)
\* How execFileSync ended: "exit0" returns; the others throw, "enoent" with
\* error.code === 'ENOENT', "nonzero" with the exit status, "timeout" when
\* EXTERNAL_PROCESS_TIMEOUT_MS fired; error.stdout and error.stderr hold what
\* the child wrote.  The runners read neither stream after "exit0" or "enoent".
Outcome(tool, kind, stdout, stderr) ==
    [tool |-> tool, kind |-> kind, stdout |-> stdout, stderr |-> stderr]

\* All streams of exactly n lines over alphabet.
StreamsOf(alphabet, n) == [1..n -> alphabet]

\* Every way the process can end, with at most MaxOut lines on the two streams.
Outcomes(tool, alphabet) ==
    {Outcome(tool, "exit0", <<>>, <<>>), Outcome(tool, "enoent", <<>>, <<>>)}
    \cup UNION {{Outcome(tool, kind, out, err) :
                    kind \in {"nonzero", "timeout"},
                    out \in StreamsOf(alphabet, split[1]),
                    err \in StreamsOf(alphabet, split[2])} :
                split \in {p \in (0..MaxOut) \X (0..MaxOut) : p[1] + p[2] <= MaxOut}}

\* Lines the tools are taken to write.
TscAlphabet ==
    {Blank, Noise,
     TscLine("src/index.ts", "error", "TS2345"),
     TscLine("src/utils.ts", "warning", "TS6133")}

GoAlphabet == {Blank, Noise, ColonLine("main.go", "", "")}

CompilerMessage(level, code, file) ==
    JsonLine(JObject("compiler-message",
                     JMessage(level, code, JSpans(<<JSpan(file, 3, 18, TRUE)>>))))

RustAlphabet ==
    {Blank, Noise, JsonLine(JNull),
     CompilerMessage("error", "E0382", "src/main.rs"),
     CompilerMessage("warning", "", "src/lib.rs")}

MypyAlphabet ==
    {Blank, Noise,
     ColonLine("main.py", "error", "arg-type"),
     ColonLine("utils.py", "warning", "unused-variable"),
     ColonLine("main.py", "note", "")}

PylintAlphabet ==
    {Blank, Noise, ColonLine("main.py", "E0001", ""), ColonLine("main.py", "W0611", "")}

(***************************************************************************)
(* Runners                                                                 *)
(***************************************************************************)
\* Each runner is given the marker files of its directory and the way the
\* process it launches (if it launches one) ends.
runTscDiagnostics(present, e) ==
    IF "tsconfig.json" \notin present
    THEN SkippedToolResult("no marker found in directory", {"tsconfig.json"})
    ELSE IF e.kind = "exit0" THEN CleanToolResult
    ELSE IF e.kind = "enoent"
    THEN SkippedToolResult("binary not found in PATH", {"tsc"})
    ELSE LET output == OrElse(e.stdout, e.stderr)
         IN  IF TrimEmpty(output) THEN CrashToolResult("tsc-crash")
             ELSE parseTscOutput(output)

runGoDiagnostics(present, e) ==
    IF "go.mod" \notin present
    THEN SkippedToolResult("no marker found in directory", {"go.mod"})
    ELSE IF e.kind = "exit0" THEN CleanToolResult
    ELSE IF e.kind = "enoent"
    THEN SkippedToolResult("binary not found in PATH", {"go"})
    ELSE parseGoOutput(OrElse(e.stderr, e.stdout))

\* Variant: the ENOENT branch of the catch block is missing.
runRustDiagnostics_EnoentUnhandled(present, e) ==
    IF "Cargo.toml" \notin present
    THEN SkippedToolResult("no marker found in directory", {"Cargo.toml"})
    ELSE IF e.kind = "exit0" THEN CleanToolResult
    ELSE parseRustOutput(OrElse(e.stdout, e.stderr))

runRustDiagnostics(present, e) ==
    IF "Cargo.toml" \notin present
    THEN SkippedToolResult("no marker found in directory", {"Cargo.toml"})
    ELSE IF e.kind = "exit0" THEN CleanToolResult
    ELSE IF e.kind = "enoent"
    THEN SkippedToolResult("binary not found in PATH", {"cargo"})
    ELSE parseRustOutput(OrElse(e.stdout, e.stderr))

\* Variant: when mypy is not found at launch, pylint is run instead.
runMypy_FallsBackToPylint(e) ==
    IF e.kind = "exit0" THEN WithTool(CleanToolResult, "mypy")
    ELSE IF e.kind = "enoent" THEN WithTool(CleanToolResult, "pylint")
    ELSE IF TrimEmpty(e.stdout) THEN WithTool(CrashToolResult("mypy-crash"), "mypy")
    ELSE parseMypyOutput(e.stdout)

runMypy(e) ==
    IF e.kind = "exit0" THEN WithTool(CleanToolResult, "mypy")
    ELSE LET output == e.stdout
         IN  IF e.kind = "enoent"
             THEN WithTool(SkippedToolResult("binary not found in PATH", {"mypy"}), "mypy")
             ELSE IF TrimEmpty(output)
             THEN WithTool(CrashToolResult("mypy-crash"), "mypy")
             ELSE parseMypyOutput(output)

runPylint(e) ==
    IF e.kind = "exit0" THEN WithTool(CleanToolResult, "pylint")
    ELSE LET output == OrElse(e.stdout, e.stderr)
         IN  IF e.kind = "enoent"
             THEN WithTool(SkippedToolResult("binary not found in PATH", {"pylint"}),
                           "pylint")
             ELSE IF TrimEmpty(output)
             THEN WithTool(CrashToolResult("pylint-crash"), "pylint")
             ELSE parsePylintOutput(output)

\* Variant: pylint is tried before mypy.
runPythonDiagnostics_PylintPreferred(present, found, e) ==
    IF present \cap PythonMarkers = {}
    THEN WithTool(SkippedToolResult("no Python project files found", PythonMarkers),
                  "none")
    ELSE IF "pylint" \in found THEN runPylint(e)
    ELSE IF "mypy" \in found THEN runMypy(e)
    ELSE WithTool(SkippedToolResult("neither found in PATH", {"mypy", "pylint"}), "none")

\* found: the commands for which commandExists answers true.
runPythonDiagnostics(present, found, e) ==
    IF present \cap PythonMarkers = {}
    THEN WithTool(SkippedToolResult("no Python project files found", PythonMarkers),
                  "none")
    ELSE IF "mypy" \in found THEN runMypy(e)
    ELSE IF "pylint" \in found THEN runPylint(e)
    ELSE WithTool(SkippedToolResult("neither found in PATH", {"mypy", "pylint"}), "none")

\* The commandExists calls runPythonDiagnostics makes, in order, with answers.
PythonProbes(present, found) ==
    IF present \cap PythonMarkers = {} THEN <<>>
    ELSE IF "mypy" \in found THEN <<[command |-> "mypy", exists |-> TRUE]>>
    ELSE <<[command |-> "mypy", exists |-> FALSE],
           [command |-> "pylint", exists |-> "pylint" \in found]>>

\* The binary runPythonDiagnostics launches, "none" when it launches nothing.
PythonTool(present, found) ==
    IF present \cap PythonMarkers = {} THEN "none"
    ELSE IF "mypy" \in found THEN "mypy"
    ELSE IF "pylint" \in found THEN "pylint"
    ELSE "none"

(***************************************************************************)
(* Formatting (index.ts)                                                   *)
(***************************************************************************)
\* The summary and diagnostics texts are kept as records of their parts.
makeSkippedResult(summary) ==
    [strategy |-> "skipped", success |-> TRUE, errorCount |-> 0, warningCount |-> 0,
     diagnostics |-> None, summary |-> summary]

\* `${prefix} skipped: ${reason}`
SkippedSummary(prefix, reason) == [prefix |-> prefix, skipped |-> reason]

\* One "  line:column - severity [code]: message" row.
DiagnosticRow(diag) ==
    [line |-> diag.line, column |-> diag.column, severity |-> diag.severity,
     code |-> IF "code" \in DOMAIN diag THEN diag.code ELSE "",
     message |-> diag.message]

\* The Map byFile of formatDiagnosticResult: files in order of first
\* appearance, each with the rows of its diagnostics in order.
GroupByFile(diagnostics) ==
    LET n == Len(diagnostics)
        IsFirst(i) == \A j \in 1..(i - 1) : diagnostics[j].file # diagnostics[i].file
        firsts == SelectSeq([i \in 1..n |-> i], IsFirst)
        OfFile(f) ==
            LET Same(d) == d.file = f
                ds == SelectSeq(diagnostics, Same)
            IN  [k \in 1..Len(ds) |-> DiagnosticRow(ds[k])]
    IN  [k \in 1..Len(firsts) |->
            [file |-> diagnostics[firsts[k]].file,
             rows |-> OfFile(diagnostics[firsts[k]].file)]]

formatDiagnosticResult(r, strat, toolName) ==
    IF Len(r.diagnostics) = 0
    THEN [strategy |-> strat, success |-> r.success, errorCount |-> r.errorCount,
          warningCount |-> r.warningCount,
          diagnostics |-> [text |-> "No diagnostics found", tool |-> toolName],
          summary |-> [tool |-> toolName, verdict |-> "passed",
                       errors |-> 0, warnings |-> 0]]
    ELSE [strategy |-> strat, success |-> r.success, errorCount |-> r.errorCount,
          warningCount |-> r.warningCount,
          diagnostics |-> [groups |-> GroupByFile(r.diagnostics)],
          summary |-> [tool |-> toolName,
                       verdict |-> IF r.success THEN "passed" ELSE "failed",
                       errors |-> r.errorCount, warnings |-> r.warningCount]]

formatTscResult(r) ==
    IF r.skipped # None
    THEN makeSkippedResult(SkippedSummary("TypeScript diagnostics", r.skipped))
    ELSE formatDiagnosticResult(r, "tsc", "TypeScript check")

\* Variant: the skipped result is formatted like any other.
formatGoResult_SkipUnnoticed(r) == formatDiagnosticResult(r, "go", "Go vet")

formatGoResult(r) ==
    IF r.skipped # None
    THEN makeSkippedResult(SkippedSummary("Go diagnostics", r.skipped))
    ELSE formatDiagnosticResult(r, "go", "Go vet")

formatRustResult(r) ==
    IF r.skipped # None
    THEN makeSkippedResult(SkippedSummary("Rust diagnostics", r.skipped))
    ELSE formatDiagnosticResult(r, "rust", "Cargo check")

formatPythonResult(r) ==
    IF r.skipped # None
    THEN makeSkippedResult(SkippedSummary("Python diagnostics", r.skipped))
    ELSE formatDiagnosticResult(r, "python",
             IF r.tool = "mypy" THEN "Mypy"
             ELSE IF r.tool = "pylint" THEN "Pylint" ELSE "Python")

(***************************************************************************)
(* Detection and strategy selection (index.ts)                             *)
(***************************************************************************)
\* Variant: go.mod is looked for before tsconfig.json.
detectProjectType_GoFirst(present) ==
    IF "go.mod" \in present THEN "go"
    ELSE IF "tsconfig.json" \in present THEN "typescript"
    ELSE IF "Cargo.toml" \in present THEN "rust"
    ELSE IF present \cap PythonMarkers # {} THEN "python"
    ELSE "unknown"

detectProjectType(present) ==
    IF "tsconfig.json" \in present THEN "typescript"
    ELSE IF "go.mod" \in present THEN "go"
    ELSE IF "Cargo.toml" \in present THEN "rust"
    ELSE IF present \cap PythonMarkers # {} THEN "python"
    ELSE "unknown"

\* Variant: an explicit strategy whose marker is absent falls back to 'lsp'.
UseStrategy_FallsBackToLsp(strat, present) ==
    IF strat = "auto"
    THEN LET projectType == detectProjectType(present)
         IN  CASE projectType = "typescript" -> "tsc"
               [] projectType = "go" -> "go"
               [] projectType = "rust" -> "rust"
               [] projectType = "python" -> "python"
               [] OTHER -> "lsp"
    ELSE IF strat = "tsc" /\ "tsconfig.json" \notin present THEN "lsp"
    ELSE strat

\* Variant: the switch has no case for 'rust', which takes the default.
UseStrategy_RustCaseMissing(strat, present) ==
    IF strat = "auto"
    THEN LET projectType == detectProjectType(present)
         IN  CASE projectType = "typescript" -> "tsc"
               [] projectType = "go" -> "go"
               [] projectType = "python" -> "python"
               [] OTHER -> "lsp"
    ELSE strat

\* The switch that sets useStrategy in runDirectoryDiagnostics.
UseStrategy(strat, present) ==
    IF strat = "auto"
    THEN LET projectType == detectProjectType(present)
         IN  CASE projectType = "typescript" -> "tsc"
               [] projectType = "go" -> "go"
               [] projectType = "rust" -> "rust"
               [] projectType = "python" -> "python"
               [] OTHER -> "lsp"
    ELSE strat

Call(fn, dir) == [fn |-> fn, dir |-> dir]

\* The calls made on the way to the runner: the detector only under 'auto'.
SelectionCalls(strat, dir) ==
    IF strat = "auto" THEN <<Call("detectProjectType", dir)>> ELSE <<>>

(***************************************************************************)
(* LSP fallback (lsp-aggregator.ts)                                        *)
(***************************************************************************)
\* LSP_SERVERS: the extensions of each configured server, in registry order.
LSP_SERVERS ==
    <<[name |-> "typescript",
       extensions |-> <<".ts", ".tsx", ".js", ".jsx", ".mts", ".cts", ".mjs", ".cjs">>],
      [name |-> "python", extensions |-> <<".py", ".pyw">>],
      [name |-> "rust", extensions |-> <<".rs">>],
      [name |-> "go", extensions |-> <<".go">>],
      [name |-> "c",
       extensions |-> <<".c", ".h", ".cpp", ".cc", ".cxx", ".hpp", ".hxx">>],
      [name |-> "java", extensions |-> <<".java">>],
      [name |-> "json", extensions |-> <<".json", ".jsonc">>],
      [name |-> "html", extensions |-> <<".html", ".htm">>],
      [name |-> "css", extensions |-> <<".css", ".scss", ".less">>],
      [name |-> "yaml", extensions |-> <<".yaml", ".yml">>],
      [name |-> "ruby", extensions |-> <<".rb", ".rake", ".gemspec">>],
      [name |-> "php", extensions |-> <<".php", ".phtml">>],
      [name |-> "lua", extensions |-> <<".lua">>],
      [name |-> "bash", extensions |-> <<".sh", ".bash", ".zsh">>],
      [name |-> "elixir", extensions |-> <<".ex", ".exs">>],
      [name |-> "kotlin", extensions |-> <<".kt", ".kts">>],
      [name |-> "swift", extensions |-> <<".swift">>],
      [name |-> "csharp", extensions |-> <<".cs">>],
      [name |-> "scala", extensions |-> <<".scala", ".sc", ".sbt">>],
      [name |-> "zig", extensions |-> <<".zig">>],
      [name |-> "haskell", extensions |-> <<".hs", ".lhs">>]>>

\* extensions.includes(ext)
Includes(extensions, ext) == \E i \in 1..Len(extensions) : extensions[i] = ext

RECURSIVE AddAll(_, _)
\* for (const ext of config.extensions) extensions.add(ext): a Set keeps the
\* order of first insertion.
AddAll(extensions, exts) ==
    IF exts = <<>> THEN extensions
    ELSE AddAll(IF Includes(extensions, Head(exts)) THEN extensions
                ELSE Append(extensions, Head(exts)),
                Tail(exts))

RECURSIVE CollectExtensions(_, _)
\* for (const config of Object.values(LSP_SERVERS)) ...
CollectExtensions(configs, extensions) ==
    IF configs = <<>> THEN extensions
    ELSE CollectExtensions(Tail(configs), AddAll(extensions, Head(configs).extensions))

\* Array.from(extensions) of a fresh computation.
RegistryExtensions == CollectExtensions(LSP_SERVERS, <<>>)

\* getAllSupportedExtensions(): the cached list, computed when there is none.
\* The value is the new content of _cachedExtensions, which is also returned.
getAllSupportedExtensions(cache) ==
    IF cache # None THEN cache ELSE [extensions |-> RegistryExtensions]

\* invalidateExtensionCache(): the new content of _cachedExtensions.
invalidateExtensionCache(cache) == None

IgnoreDirs == {"node_modules", "dist", "build", ".git"}

\* Directory entries: a file, a directory (readdirSync of which may throw), or
\* an entry whose statSync throws.
FileEntry(name, ext) == [kind |-> "file", name |-> name, ext |-> ext]

DirEntry(name, readable, entries) ==
    [kind |-> "dir", name |-> name, readable |-> readable, entries |-> entries]

NoStatEntry(name) == [kind |-> "nostat", name |-> name]

PlainNames == <<"a.ts", "b.ts", "c.ts", "d.ts">>

SpecialEntries ==
    <<DirEntry("node_modules", TRUE, <<FileEntry("node_modules/x.js", ".js")>>),
      DirEntry("src", TRUE, <<FileEntry("src/main.py", ".py"),
                              FileEntry("src/notes.md", ".md")>>),
      DirEntry("locked", FALSE, <<FileEntry("locked/y.ts", ".ts")>>),
      NoStatEntry("gone.ts")>>

\* The root's entries: k plain files, then the chosen special entries.
Tree(k, extras) ==
    LET Chosen(e) == e.name \in extras
    IN  [i \in 1..k |-> FileEntry(PlainNames[i], ".ts")] \o SelectSeq(SpecialEntries, Chosen)

Trees ==
    {Tree(k, extras) :
        k \in 0..MaxFiles,
        extras \in SUBSET {"node_modules", "src", "locked", "gone.ts"}}

RECURSIVE walkEntries(_, _)
\* The body of walk's for loop over entries, results in push order.
walkEntries(entries, extensions) ==
    IF entries = <<>> THEN <<>>
    ELSE LET entry == Head(entries)
             here ==
                 CASE entry.kind = "nostat" -> <<>>
                   [] entry.kind = "dir" ->
                        IF entry.name \in IgnoreDirs \/ ~entry.readable THEN <<>>
                        ELSE walkEntries(entry.entries, extensions)
                   [] OTHER ->
                        IF Includes(extensions, entry.ext) THEN <<entry.name>> ELSE <<>>
         IN  here \o walkEntries(Tail(entries), extensions)

\* findFiles(directory, extensions, ignoreDirs); readdirSync of a root that
\* is no directory throws inside walk, which returns without results.
findFiles(rootIsDir, entries, extensions) ==
    IF rootIsDir THEN walkEntries(entries, extensions) ELSE <<>>

\* What the language server publishes for one file.
LspDiagnostic(severity) == [severity |-> severity, line |-> 1, message |-> "msg"]

PublishedChoices ==
    {<<>>, <<LspDiagnostic(1)>>, <<LspDiagnostic(2)>>, <<LspDiagnostic(3)>>,
     <<LspDiagnostic(2), LspDiagnostic(1)>>}

\* Variant: every diagnostic that is no error is counted as a warning.
LspAggregationResult_RestAreWarnings(allDiagnostics, filesChecked) ==
    LET errorCount ==
            Cardinality({i \in 1..Len(allDiagnostics) :
                            allDiagnostics[i].diagnostic.severity = 1})
    IN  [success |-> errorCount = 0, diagnostics |-> allDiagnostics,
         errorCount |-> errorCount,
         warningCount |-> Len(allDiagnostics) - errorCount,
         filesChecked |-> filesChecked]

\* The object runLspAggregatedDiagnostics returns.
LspAggregationResult(allDiagnostics, filesChecked) ==
    LET errorCount ==
            Cardinality({i \in 1..Len(allDiagnostics) :
                            allDiagnostics[i].diagnostic.severity = 1})
        warningCount ==
            Cardinality({i \in 1..Len(allDiagnostics) :
                            allDiagnostics[i].diagnostic.severity = 2})
    IN  [success |-> errorCount = 0, diagnostics |-> allDiagnostics,
         errorCount |-> errorCount, warningCount |-> warningCount,
         filesChecked |-> filesChecked]

\* Files in order of first appearance, each with its diagnostics in order.
GroupLspByFile(items) ==
    LET n == Len(items)
        IsFirst(i) == \A j \in 1..(i - 1) : items[j].file # items[i].file
        firsts == SelectSeq([i \in 1..n |-> i], IsFirst)
        OfFile(f) ==
            LET Same(d) == d.file = f
                ds == SelectSeq(items, Same)
            IN  [k \in 1..Len(ds) |-> ds[k].diagnostic]
    IN  [k \in 1..Len(firsts) |->
            [file |-> items[firsts[k]].file, rows |-> OfFile(items[firsts[k]].file)]]

\* Variant: a run that checked no file is reported as skipped.
formatLspResult_NothingCheckedIsSkipped(r) ==
    IF r.filesChecked = 0
    THEN makeSkippedResult(SkippedSummary("LSP diagnostics",
                                          [why |-> "no files checked", names |-> {}]))
    ELSE [strategy |-> "lsp", success |-> r.success, errorCount |-> r.errorCount,
          warningCount |-> r.warningCount,
          diagnostics |-> [groups |-> GroupLspByFile(r.diagnostics)],
          summary |-> [tool |-> "LSP check",
                       verdict |-> IF r.success THEN "passed" ELSE "failed",
                       errors |-> r.errorCount, warnings |-> r.warningCount,
                       files |-> r.filesChecked]]

formatLspResult(r) ==
    IF Len(r.diagnostics) = 0
    THEN [strategy |-> "lsp", success |-> r.success, errorCount |-> r.errorCount,
          warningCount |-> r.warningCount,
          diagnostics |-> [text |-> "No diagnostics found", files |-> r.filesChecked],
          summary |-> [tool |-> "LSP check", verdict |-> "passed", errors |-> 0,
                       warnings |-> 0, files |-> r.filesChecked]]
    ELSE [strategy |-> "lsp", success |-> r.success, errorCount |-> r.errorCount,
          warningCount |-> r.warningCount,
          diagnostics |-> [groups |-> GroupLspByFile(r.diagnostics)],
          summary |-> [tool |-> "LSP check",
                       verdict |-> IF r.success THEN "passed" ELSE "failed",
                       errors |-> r.errorCount, warnings |-> r.warningCount,
                       files |-> r.filesChecked]]

(***************************************************************************)
(* State machine of one runDirectoryDiagnostics(directory, strategy) call  *)
(***************************************************************************)
NoLsp == [files |-> <<>>, i |-> 0, step |-> "idle", allDiagnostics |-> <<>>,
          filesChecked |-> 0, log |-> <<>>]

Init ==
    /\ pc = "exists"
    /\ strategy \in Strategies
    /\ pathKind \in PathKinds
    /\ markers \in (IF pathKind = "dir" THEN SUBSET Markers ELSE {{}})
    /\ resolvedDirectory = Unresolved
    /\ calls = <<>>
    /\ probes = <<>>
    /\ exec = None
    /\ toolResult = None
    /\ result = None
    /\ thrown = NoException
    /\ lsp = NoLsp
    /\ cachedExtensions = None

\* return <DirectoryDiagnosticResult>
Return(r) ==
    /\ pc' = "done"
    /\ result' = r

\* An exception leaves the async function: the returned promise rejects.
Throw(what) ==
    /\ pc' = "thrown"
    /\ thrown' = what
    /\ result' = None

PreflightSkip(why) ==
    makeSkippedResult(SkippedSummary("Diagnostics", [why |-> why, names |-> {directory}]))

\* if (!existsSync(directory)) return makeSkippedResult(...)
CheckExists ==
    /\ pc = "exists"
    /\ IF pathKind \in {"missing", "dangling"}
       THEN Return(PreflightSkip("directory does not exist"))
       ELSE pc' = "stat" /\ UNCHANGED result
    /\ UNCHANGED <<strategy, pathKind, markers, resolvedDirectory, calls, probes,
                   exec, toolResult, thrown, lsp, cachedExtensions>>

\* if (!statSync(directory).isDirectory()) return makeSkippedResult(...)
\* statSync throws ENOENT when the path is gone by now.
CheckIsDirectory ==
    /\ pc = "stat"
    /\ CASE pathKind \in {"missing", "dangling"} ->
                Throw("ENOENT")
         [] pathKind = "file" ->
                Return(PreflightSkip("path is not a directory")) /\ UNCHANGED thrown
         [] OTHER ->
                pc' = "realpath" /\ UNCHANGED <<result, thrown>>
    /\ UNCHANGED <<strategy, pathKind, markers, resolvedDirectory, calls, probes,
                   exec, toolResult, lsp, cachedExtensions>>

\* Variant: realpathSync is called outside any try block.
ResolvePath_NoCatch ==
    /\ pc = "realpath"
    /\ IF pathKind \in {"missing", "dangling"}
       THEN /\ pc' = "thrown"
            /\ thrown' = "ENOENT"
            /\ UNCHANGED <<resolvedDirectory, result>>
       ELSE /\ pc' = "dispatch"
            /\ resolvedDirectory' = RealPath
            /\ UNCHANGED <<result, thrown>>
    /\ UNCHANGED <<strategy, pathKind, markers, calls, probes, exec, toolResult,
                   lsp, cachedExtensions>>

\* try { resolvedDirectory = realpathSync(directory) } catch { return ... }
ResolvePath ==
    /\ pc = "realpath"
    /\ IF pathKind \in {"missing", "dangling"}
       THEN Return(PreflightSkip("cannot resolve directory path"))
            /\ UNCHANGED resolvedDirectory
       ELSE pc' = "dispatch" /\ resolvedDirectory' = RealPath /\ UNCHANGED result
    /\ UNCHANGED <<strategy, pathKind, markers, calls, probes, exec, toolResult,
                   thrown, lsp, cachedExtensions>>

\* Another process removes the directory, replaces it by a file or leaves a
\* dangling symlink, between two of the dispatcher's file system calls.
EnvChange ==
    /\ pc \in {"stat", "realpath"}
    /\ pathKind = "dir"
    /\ pathKind' \in {"missing", "file", "dangling"}
    /\ markers' = {}
    /\ UNCHANGED <<pc, strategy, resolvedDirectory, calls, probes, exec, toolResult,
                   result, thrown, lsp, cachedExtensions>>

\* The process a runner launches: one of S when it launches, None otherwise.
Launch(launches, S) == IF launches THEN S ELSE {None}

\* The part every synchronous runner path shares: r is what the runner
\* returned (or threw), Format the dispatcher's formatter for it.
Finish(fn, r, formatted, e, probed) ==
    /\ calls' = SelectionCalls(strategy, resolvedDirectory)
                    \o <<Call(fn, resolvedDirectory)>>
    /\ exec' = e
    /\ probes' = probed
    /\ IF DidThrow(r)
       THEN Throw(r.threw) /\ toolResult' = None
       ELSE Return(formatted) /\ toolResult' = r /\ UNCHANGED thrown
    /\ UNCHANGED <<strategy, pathKind, markers, resolvedDirectory, lsp,
                   cachedExtensions>>

\* case 'tsc': return formatTscResult(runTscDiagnostics(resolvedDirectory))
RunTsc ==
    /\ pc = "dispatch"
    /\ UseStrategy(strategy, markers) = "tsc"
    /\ \E e \in Launch("tsconfig.json" \in markers, Outcomes("tsc", TscAlphabet)) :
          LET r == runTscDiagnostics(markers, e)
          IN  Finish("runTscDiagnostics", r, formatTscResult(r), e, <<>>)

\* case 'go': return formatGoResult(runGoDiagnostics(resolvedDirectory))
RunGo ==
    /\ pc = "dispatch"
    /\ UseStrategy(strategy, markers) = "go"
    /\ \E e \in Launch("go.mod" \in markers, Outcomes("go", GoAlphabet)) :
          LET r == runGoDiagnostics(markers, e)
          IN  Finish("runGoDiagnostics", r, formatGoResult(r), e, <<>>)

\* case 'rust': return formatRustResult(runRustDiagnostics(resolvedDirectory))
RunRust ==
    /\ pc = "dispatch"
    /\ UseStrategy(strategy, markers) = "rust"
    /\ \E e \in Launch("Cargo.toml" \in markers, Outcomes("cargo", RustAlphabet)) :
          LET r == runRustDiagnostics(markers, e)
          IN  Finish("runRustDiagnostics", r,
                     IF DidThrow(r) THEN None ELSE formatRustResult(r), e, <<>>)

\* case 'python': return formatPythonResult(runPythonDiagnostics(resolvedDirectory))
RunPython ==
    /\ pc = "dispatch"
    /\ UseStrategy(strategy, markers) = "python"
    /\ \E found \in Launch(markers \cap PythonMarkers # {}, SUBSET {"mypy", "pylint"}) :
          LET tool == PythonTool(markers, found)
          IN  \E e \in Launch(tool # "none",
                              Outcomes(tool, IF tool = "mypy" THEN MypyAlphabet
                                             ELSE PylintAlphabet)) :
                 LET r == runPythonDiagnostics(markers, found, e)
                 IN  Finish("runPythonDiagnostics", r, formatPythonResult(r), e,
                            PythonProbes(markers, found))

\* The loop `for (const file of files)` moves to its next file, or, past the
\* last one, runLspAggregatedDiagnostics returns and the dispatcher formats.
NextFile(l) ==
    LET next == [l EXCEPT !.i = l.i + 1, !.step = "acquire"]
    IN  IF next.i > Len(next.files)
        THEN /\ lsp' = [next EXCEPT !.step = "returned"]
             /\ toolResult' = LspAggregationResult(next.allDiagnostics, next.filesChecked)
             /\ Return(formatLspResult(
                    LspAggregationResult(next.allDiagnostics, next.filesChecked)))
        ELSE /\ lsp' = next
             /\ UNCHANGED <<pc, toolResult, result>>

Logged(l, event) == [l EXCEPT !.log = Append(l.log, [file |-> l.files[l.i], event |-> event])]

\* case 'lsp': formatLspResult(await runLspAggregatedDiagnostics(resolvedDirectory)),
\* up to the first await of the loop.
RunLsp ==
    /\ pc = "dispatch"
    /\ UseStrategy(strategy, markers) = "lsp"
    /\ \E tree \in Launch(pathKind = "dir", Trees) :
          LET effectiveExtensions == getAllSupportedExtensions(cachedExtensions)
              files == findFiles(pathKind = "dir", tree, effectiveExtensions.extensions)
          IN  /\ cachedExtensions' = effectiveExtensions
              /\ calls' = SelectionCalls(strategy, resolvedDirectory)
                              \o <<Call("runLspAggregatedDiagnostics", resolvedDirectory)>>
              /\ IF files = <<>>
                 THEN /\ lsp' = [NoLsp EXCEPT !.step = "returned"]
                      /\ toolResult' = LspAggregationResult(<<>>, 0)
                      /\ Return(formatLspResult(LspAggregationResult(<<>>, 0)))
                 ELSE /\ lsp' = [NoLsp EXCEPT !.files = files, !.i = 1,
                                              !.step = "acquire"]
                      /\ pc' = "lsp"
                      /\ UNCHANGED <<toolResult, result>>
    /\ UNCHANGED <<strategy, pathKind, markers, resolvedDirectory, probes, exec, thrown>>

\* const client = await lspClientManager.getClientForFile(file);
\* if (!client) continue;          (a rejection is caught: continue)
LspAcquire ==
    /\ pc = "lsp"
    /\ lsp.step = "acquire"
    /\ \E outcome \in {"client", "null", "throws"} :
          IF outcome = "client"
          THEN /\ lsp' = [Logged(lsp, "acquired") EXCEPT !.step = "open"]
               /\ UNCHANGED <<pc, toolResult, result>>
          ELSE NextFile(Logged(lsp, IF outcome = "null" THEN "no-client" ELSE "failed"))
    /\ UNCHANGED <<strategy, pathKind, markers, resolvedDirectory, calls, probes, exec,
                   thrown, cachedExtensions>>

\* Variant: a rejected openDocument ends the loop.
LspOpen_FailureEndsLoop ==
    /\ pc = "lsp"
    /\ lsp.step = "open"
    /\ \E ok \in BOOLEAN :
          IF ok
          THEN /\ lsp' = [Logged(lsp, "opened") EXCEPT !.step = "wait"]
               /\ UNCHANGED <<pc, toolResult, result>>
          ELSE /\ lsp' = [Logged(lsp, "failed") EXCEPT !.step = "returned"]
               /\ toolResult' = LspAggregationResult(lsp.allDiagnostics, lsp.filesChecked)
               /\ Return(formatLspResult(
                      LspAggregationResult(lsp.allDiagnostics, lsp.filesChecked)))
    /\ UNCHANGED <<strategy, pathKind, markers, resolvedDirectory, calls, probes, exec,
                   thrown, cachedExtensions>>

\* await client.openDocument(file);
LspOpen ==
    /\ pc = "lsp"
    /\ lsp.step = "open"
    /\ \E ok \in BOOLEAN :
          IF ok
          THEN /\ lsp' = [Logged(lsp, "opened") EXCEPT !.step = "wait"]
               /\ UNCHANGED <<pc, toolResult, result>>
          ELSE NextFile(Logged(lsp, "failed"))
    /\ UNCHANGED <<strategy, pathKind, markers, resolvedDirectory, calls, probes, exec,
                   thrown, cachedExtensions>>

\* await new Promise(resolve => setTimeout(resolve, LSP_DIAGNOSTICS_WAIT_MS));
LspWait ==
    /\ pc = "lsp"
    /\ lsp.step = "wait"
    /\ lsp' = [lsp EXCEPT !.step = "read"]
    /\ UNCHANGED <<pc, strategy, pathKind, markers, resolvedDirectory, calls, probes,
                   exec, toolResult, result, thrown, cachedExtensions>>

\* Variant: the diagnostics of a file are put in front of the earlier ones.
LspRead_NewestFirst ==
    /\ pc = "lsp"
    /\ lsp.step = "read"
    /\ \/ \E published \in PublishedChoices :
             LET file == lsp.files[lsp.i]
                 pushed == [k \in 1..Len(published) |->
                               [file |-> file, diagnostic |-> published[k]]]
             IN  NextFile([Logged(lsp, "read") EXCEPT
                              !.allDiagnostics = pushed \o lsp.allDiagnostics,
                              !.filesChecked = lsp.filesChecked + 1])
       \/ NextFile(Logged(lsp, "failed"))
    /\ UNCHANGED <<strategy, pathKind, markers, resolvedDirectory, calls, probes, exec,
                   thrown, cachedExtensions>>

\* const diagnostics = client.getDiagnostics(file); push each; filesChecked++
LspRead ==
    /\ pc = "lsp"
    /\ lsp.step = "read"
    /\ \/ \E published \in PublishedChoices :
             LET file == lsp.files[lsp.i]
                 pushed == [k \in 1..Len(published) |->
                               [file |-> file, diagnostic |-> published[k]]]
             IN  NextFile([Logged(lsp, "read") EXCEPT
                              !.allDiagnostics = lsp.allDiagnostics \o pushed,
                              !.filesChecked = lsp.filesChecked + 1])
       \/ NextFile(Logged(lsp, "failed"))
    /\ UNCHANGED <<strategy, pathKind, markers, resolvedDirectory, calls, probes, exec,
                   thrown, cachedExtensions>>

Next ==
    \/ CheckExists
    \/ CheckIsDirectory
    \/ ResolvePath
    \/ EnvChange
    \/ RunTsc
    \/ RunGo
    \/ RunRust
    \/ RunPython
    \/ RunLsp
    \/ LspAcquire
    \/ LspOpen
    \/ LspWait
    \/ LspRead

Spec == Init /\ [][Next]_vars

(***************************************************************************)
(* Direct calls of the exported functions, as the test suites make them    *)
(***************************************************************************)
\* Lines given to the parsers directly: those of the tools, and more.
TscLines ==
    TscAlphabet
    \cup {TscLine("src/index.ts", "info", "TS2345"),      \* no error|warning
          TscLine("src/index.ts", "error", "E2345")}      \* no TS\d+ code

GoLines == GoAlphabet \cup {ColonLine("pkg/util.go", "", ""), ColonLine("main.py", "", "")}

MypyLines ==
    MypyAlphabet
    \cup {ColonLine("main.go", "error", ""), ColonLine("utils.py", "E0001", ""),
          ColonLine("stubs/api.pyi", "error", "name-defined")}

PylintLines ==
    PylintAlphabet
    \cup {ColonLine("main.py", "F0001", ""), ColonLine("utils.py", "C0114", ""),
          ColonLine("utils.py", "R0903", ""), ColonLine("main.py", "error", "")}

\* A compiler message with the given spans.
SpannedMessage(level, spans) ==
    JsonLine(JObject("compiler-message", JMessage(level, "E0308", spans)))

CargoLines ==
    RustAlphabet
    \cup {JsonLine(JScalar),
          JsonLine(JObject("build-finished", JNoMessage)),
          JsonLine(JObject("compiler-artifact",
                           JMessage("error", "", JSpans(<<JSpan("src/main.rs", 1, 1, TRUE)>>)))),
          JsonLine(JObject("compiler-message", JNoMessage)),
          SpannedMessage("note", JSpans(<<JSpan("src/main.rs", 7, 2, TRUE)>>)),
          SpannedMessage("error", JSpans(<<JSpan("src/other.rs", 1, 1, FALSE),
                                           JSpan("src/main.rs", 10, 5, TRUE)>>)),
          SpannedMessage("warning", JSpans(<<JSpan("src/lib.rs", 4, 9, TRUE),
                                             JSpan("src/other.rs", 2, 2, FALSE)>>)),
          SpannedMessage("error", JSpans(<<JSpan("src/other.rs", 6, 6, FALSE)>>)),
          SpannedMessage("error", JSpans(<<>>)),
          SpannedMessage("warning", JNoSpans),
          SpannedMessage("error", JBadSpans)}

\* Every text of at most MaxOut lines.
Texts(lines) == UNION {StreamsOf(lines, n) : n \in 0..MaxOut}

UnitCall(fn, input) == [fn |-> fn, input |-> input]

UnitInit ==
    /\ pc = "unit"
    /\ strategy = "auto"
    /\ pathKind = "dir"
    /\ markers = {}
    /\ resolvedDirectory = Unresolved
    /\ calls = <<>>
    /\ probes = <<>>
    /\ exec = None
    /\ toolResult = None
    /\ result = None
    /\ thrown = NoException
    /\ lsp = NoLsp
    /\ cachedExtensions = None

\* One call fn(input) that returns r.
UnitReturn(fn, input, r) ==
    /\ exec' = UnitCall(fn, input)
    /\ toolResult' = r
    /\ pc' = "done"
    /\ UNCHANGED <<thrown, strategy, pathKind, resolvedDirectory, calls, probes, result,
                   lsp, cachedExtensions>>

\* One call fn(input) that throws.
UnitThrow(fn, input, what) ==
    /\ exec' = UnitCall(fn, input)
    /\ thrown' = what
    /\ pc' = "thrown"
    /\ UNCHANGED <<toolResult, strategy, pathKind, resolvedDirectory, calls, probes, result,
                   lsp, cachedExtensions>>

\* detectProjectType(dir) on a directory holding the marker files `present`.
UnitDetectProjectType ==
    /\ pc = "unit"
    /\ \E present \in SUBSET Markers :
          /\ markers' = present
          /\ UnitReturn("detectProjectType", present, detectProjectType(present))

UnitParseTscOutput ==
    /\ pc = "unit"
    /\ \E output \in Texts(TscLines) :
          UnitReturn("parseTscOutput", output, parseTscOutput(output))
    /\ UNCHANGED markers

UnitParseGoOutput ==
    /\ pc = "unit"
    /\ \E output \in Texts(GoLines) :
          UnitReturn("parseGoOutput", output, parseGoOutput(output))
    /\ UNCHANGED markers

UnitParseRustOutput ==
    /\ pc = "unit"
    /\ \E output \in Texts(CargoLines) :
          LET r == parseRustOutput(output)
          IN  IF DidThrow(r)
              THEN UnitThrow("parseRustOutput", output, r.threw)
              ELSE UnitReturn("parseRustOutput", output, r)
    /\ UNCHANGED markers

UnitParseMypyOutput ==
    /\ pc = "unit"
    /\ \E output \in Texts(MypyLines) :
          UnitReturn("parseMypyOutput", output, parseMypyOutput(output))
    /\ UNCHANGED markers

UnitParsePylintOutput ==
    /\ pc = "unit"
    /\ \E output \in Texts(PylintLines) :
          UnitReturn("parsePylintOutput", output, parsePylintOutput(output))
    /\ UNCHANGED markers

\* A logged call of one of the extension cache's functions.
CacheCall(fn, computed, returned) == [fn |-> fn, computed |-> computed, returned |-> returned]

\* const exts = getAllSupportedExtensions();
UnitGetAllSupportedExtensions ==
    /\ pc = "unit"
    /\ Len(calls) < MaxCalls
    /\ cachedExtensions' = getAllSupportedExtensions(cachedExtensions)
    /\ calls' = Append(calls, CacheCall("getAllSupportedExtensions",
                                        cachedExtensions = None,
                                        cachedExtensions'.extensions))
    /\ UNCHANGED <<pc, strategy, pathKind, markers, resolvedDirectory, probes, exec,
                   toolResult, result, thrown, lsp>>

\* Variant: invalidation leaves the cache as it is.
UnitInvalidateExtensionCache_Ignored ==
    /\ pc = "unit"
    /\ Len(calls) < MaxCalls
    /\ calls' = Append(calls, CacheCall("invalidateExtensionCache", FALSE, <<>>))
    /\ UNCHANGED <<pc, strategy, pathKind, markers, resolvedDirectory, probes, exec,
                   toolResult, result, thrown, lsp, cachedExtensions>>

\* invalidateExtensionCache();
UnitInvalidateExtensionCache ==
    /\ pc = "unit"
    /\ Len(calls) < MaxCalls
    /\ cachedExtensions' = invalidateExtensionCache(cachedExtensions)
    /\ calls' = Append(calls, CacheCall("invalidateExtensionCache", FALSE, <<>>))
    /\ UNCHANGED <<pc, strategy, pathKind, markers, resolvedDirectory, probes, exec,
                   toolResult, result, thrown, lsp>>

UnitNext ==
    \/ UnitDetectProjectType
    \/ UnitParseTscOutput
    \/ UnitParseGoOutput
    \/ UnitParseRustOutput
    \/ UnitParseMypyOutput
    \/ UnitParsePylintOutput
    \/ UnitGetAllSupportedExtensions
    \/ UnitInvalidateExtensionCache

SpecUnit == UnitInit /\ [][UnitNext]_vars

(***************************************************************************)
(* Properties                                                              *)
(***************************************************************************)
\* r is a ToolResult a runner returned (the LSP aggregator's has no `skipped`).
IsToolResult(r) == r # None /\ "skipped" \in DOMAIN r

\* A runner was entered, launched a process, and the call is over.
Ran == exec # None /\ pc \in {"done", "thrown"}

CrashCodes == {"tsc-crash", "go-crash", "cargo-crash", "rust-crash", "mypy-crash",
               "pylint-crash", "python-crash"}

\* The synthesized crash result: one error at file '.', line 0, column 0.
IsCrashResult(r) ==
    /\ IsToolResult(r)
    /\ Len(r.diagnostics) = 1
    /\ r.diagnostics[1].severity = "error"
    /\ r.diagnostics[1].file = "."
    /\ r.diagnostics[1].line = 0
    /\ r.diagnostics[1].column = 0
    /\ "code" \in DOMAIN r.diagnostics[1]
    /\ r.diagnostics[1].code \in CrashCodes
    /\ r.errorCount = 1
    /\ ~r.success

\* The line is one the parser of `tool` turns into a diagnostic.
Recognised(tool, l) ==
    CASE tool = "tsc" -> TscMatches(l)
      [] tool = "go" -> GoMatches(l)
      [] tool = "cargo" -> RustPushes(l)
      [] tool = "mypy" -> MypyKept(l)
      [] tool = "pylint" -> PylintMatches(l)
      [] OTHER -> FALSE

\* The parser of `tool` applied to one stream.
ParserOf(tool, output) ==
    CASE tool = "tsc" -> parseTscOutput(output)
      [] tool = "go" -> parseGoOutput(output)
      [] tool = "cargo" -> parseRustOutput(output)
      [] tool = "mypy" -> parseMypyOutput(output)
      [] OTHER -> parsePylintOutput(output)

\* What the runner call produced: its ToolResult, or the exception.
RunnerOutcome == IF pc = "thrown" THEN Throws(thrown) ELSE toolResult

\* C1: every ToolResult of a runner or parser has success = TRUE exactly when
\* its errorCount is 0; a result made of warnings only is a success.
C1_SuccessIffNoErrors ==
    IsToolResult(toolResult) => (toolResult.success <=> toolResult.errorCount = 0)

\* C2: a tool that exits non-zero with both streams empty yields the crash
\* result (one error at '.', 0, 0 with a crash code, errorCount 1, no success),
\* for each of the four runners.
C2_SilentCrashIsReported ==
    (Ran /\ exec.kind = "nonzero" /\ exec.stdout = <<>> /\ exec.stderr = <<>>)
        => IsCrashResult(toolResult)

\* C3: a tool that exits non-zero without any line its parser recognises
\* yields exactly one error diagnostic and success = FALSE, never a success
\* with no diagnostics.
C3_UnparseableFailureIsReported ==
    (/\ Ran
     /\ exec.kind = "nonzero"
     /\ \A i \in 1..Len(exec.stdout) : ~Recognised(exec.tool, exec.stdout[i])
     /\ \A i \in 1..Len(exec.stderr) : ~Recognised(exec.tool, exec.stderr[i]))
        => /\ IsToolResult(toolResult)
           /\ Len(toolResult.diagnostics) = 1
           /\ toolResult.diagnostics[1].severity = "error"
           /\ ~toolResult.success

\* C4: after a non-zero exit with output on at least one stream, the runner
\* returns what its parser makes of a stream that carries output, whichever
\* stream that is; the crash result appears only when neither stream carries
\* any.  (A stream of blank lines only is read as carrying no output.)
C4_OutputOnEitherStreamIsParsed ==
    (Ran /\ exec.kind = "nonzero")
        => /\ (~TrimEmpty(exec.stdout) \/ ~TrimEmpty(exec.stderr))
                => \E stream \in {exec.stdout, exec.stderr} :
                      /\ ~TrimEmpty(stream)
                      /\ RunnerOutcome = ParserOf(exec.tool, stream)
           /\ IsCrashResult(toolResult)
                => (TrimEmpty(exec.stdout) /\ TrimEmpty(exec.stderr))

\* C5: a run ended by the timeout with nothing buffered yields the crash
\* result, never a success and never a skip.
C5_SilentTimeoutIsCrash ==
    (Ran /\ exec.kind = "timeout" /\ exec.stdout = <<>> /\ exec.stderr = <<>>)
        => IsCrashResult(toolResult)

\* The ToolResult says "nothing was run" and names every binary in `binaries`.
IsSkippedNaming(r, binaries) ==
    /\ IsToolResult(r)
    /\ r.success
    /\ r.diagnostics = <<>>
    /\ r.errorCount = 0
    /\ r.warningCount = 0
    /\ r.skipped # None
    /\ binaries \subseteq r.skipped.names

\* C6: when the marker exists and the tool's executable is not found (the
\* launch fails with ENOENT, or, for Python, commandExists finds neither mypy
\* nor pylint), the runner returns success with no diagnostics, zero counts
\* and a skipped reason naming the missing binary, and the dispatcher returns
\* strategy 'skipped'.
C6_MissingToolIsSkipped ==
    /\ (Ran /\ exec.kind = "enoent")
          => /\ IsSkippedNaming(toolResult, {exec.tool})
             /\ pc = "done"
             /\ result.strategy = "skipped"
    /\ (pc \in {"done", "thrown"} /\ Len(probes) = 2 /\ ~probes[2].exists)
          => /\ exec = None
             /\ IsSkippedNaming(toolResult, {"mypy", "pylint"})
             /\ pc = "done"
             /\ result.strategy = "skipped"

C6_Witness ==
    /\ pc = "done"
    /\ exec # None
    /\ exec.kind = "enoent"
    /\ exec.tool = "cargo"
    /\ "Cargo.toml" \in markers
    /\ result.strategy = "skipped"

\* The marker file(s) of an explicit strategy are present.
MarkerPresent(strat, present) ==
    CASE strat = "tsc" -> "tsconfig.json" \in present
      [] strat = "go" -> "go.mod" \in present
      [] strat = "rust" -> "Cargo.toml" \in present
      [] strat = "python" ->
            \E m \in {"pyproject.toml", "requirements.txt", "setup.py"} : m \in present
      [] OTHER -> FALSE

\* C7: under an explicit strategy tsc, go, rust or python the dispatcher calls
\* neither the detector nor the LSP aggregator; a returned result has strategy
\* 'skipped' and success when the strategy's marker is absent, and otherwise
\* the requested strategy or 'skipped'.
C7_ExplicitStrategyIsPinned ==
    strategy \in {"tsc", "go", "rust", "python"}
        => /\ \A i \in 1..Len(calls) :
                 calls[i].fn \notin {"detectProjectType", "runLspAggregatedDiagnostics"}
           /\ lsp.step = "idle"
           /\ (pc = "done" /\ resolvedDirectory # Unresolved)
                 => /\ result.strategy \in {strategy, "skipped"}
                    /\ ~MarkerPresent(strategy, markers)
                          => (result.strategy = "skipped" /\ result.success)

C7_Witness ==
    /\ strategy = "tsc"
    /\ pc = "done"
    /\ pathKind = "dir"
    /\ markers = {"go.mod", "setup.py"}
    /\ result.strategy = "skipped"
    /\ calls = <<Call("runTscDiagnostics", RealPath)>>

Gone == {"missing", "dangling"}

C9_RunnersNeverThrow == ~(pc = "thrown" /\ calls # <<>>)

\* The runner (or aggregator) the dispatcher maps a project type to.
MappedPath(projectType) ==
    CASE projectType = "typescript" -> "runTscDiagnostics"
      [] projectType = "go" -> "runGoDiagnostics"
      [] projectType = "rust" -> "runRustDiagnostics"
      [] projectType = "python" -> "runPythonDiagnostics"
      [] projectType = "unknown" -> "runLspAggregatedDiagnostics"

\* C10: under 'auto' the dispatcher calls the detector on the resolved
\* directory and then exactly the path mapped to the detected type, also on
\* the resolved directory; the LSP aggregator runs only for type unknown.
C10_AutoFollowsDetector ==
    (strategy = "auto" /\ pc \in {"lsp", "done", "thrown"} /\ resolvedDirectory # Unresolved)
        => /\ calls = <<Call("detectProjectType", RealPath),
                        Call(MappedPath(detectProjectType(markers)), RealPath)>>
           /\ (lsp.step # "idle") <=> (detectProjectType(markers) = "unknown")

C10_Witness ==
    /\ strategy = "auto"
    /\ pc = "done"
    /\ markers = {"requirements.txt"}
    /\ calls[2].fn = "runPythonDiagnostics"
    /\ result.strategy = "python"

\* The order in which detectProjectType looks for the markers, with the
\* project type each one stands for.
MarkerOrder == <<"tsconfig.json", "go.mod", "Cargo.toml",
                 "pyproject.toml", "requirements.txt", "setup.py">>

TypeOfMarker(m) ==
    CASE m = "tsconfig.json" -> "typescript"
      [] m = "go.mod" -> "go"
      [] m = "Cargo.toml" -> "rust"
      [] OTHER -> "python"

\* The call under way or just finished is fn(...).
Called(fn) == exec # None /\ "fn" \in DOMAIN exec /\ exec.fn = fn

\* C11: for every set of present marker files detectProjectType returns the
\* type of the first present marker in the order tsconfig.json, go.mod,
\* Cargo.toml, then pyproject.toml / requirements.txt / setup.py, and
\* 'unknown' exactly when none of the six is present.
C11_FirstMarkerWins ==
    Called("detectProjectType")
        => LET present == exec.input
               at == {i \in 1..Len(MarkerOrder) : MarkerOrder[i] \in present}
           IN  /\ (toolResult = "unknown") <=> (present = {})
               /\ present # {}
                     => \E i \in at :
                           /\ \A j \in at : i <= j
                           /\ toolResult = TypeOfMarker(MarkerOrder[i])

C11_Witness ==
    /\ Called("detectProjectType")
    /\ exec.input = {"go.mod", "Cargo.toml", "setup.py"}
    /\ toolResult = "go"

\* The dispatcher called runner fn and the call has returned.
Returned(fn) == pc = "done" /\ calls # <<>> /\ calls[Len(calls)].fn = fn

\* C12: runPythonDiagnostics launches nothing (and probes nothing) when none of
\* the three Python markers exists; otherwise it launches mypy when mypy is on
\* the search path, else pylint when pylint is, else returns a skipped result
\* (success, no diagnostics, tool 'none') naming both mypy and pylint.  pylint
\* is never launched when mypy is available.
C12_MypyBeforePylint ==
    Returned("runPythonDiagnostics")
        => /\ IF \A m \in {"pyproject.toml", "requirements.txt", "setup.py"} : m \notin markers
              THEN /\ exec = None
                   /\ probes = <<>>
                   /\ toolResult.skipped # None
                   /\ toolResult.tool = "none"
              ELSE /\ probes # <<>>
                   /\ probes[1].command = "mypy"
                   /\ IF probes[1].exists
                      THEN /\ exec # None
                           /\ exec.tool = "mypy"
                           /\ toolResult.tool = "mypy"
                      ELSE /\ Len(probes) = 2
                           /\ probes[2].command = "pylint"
                           /\ IF probes[2].exists
                              THEN /\ exec # None
                                   /\ exec.tool = "pylint"
                                   /\ toolResult.tool = "pylint"
                              ELSE /\ exec = None
                                   /\ IsSkippedNaming(toolResult, {"mypy", "pylint"})
                                   /\ toolResult.tool = "none"
           /\ (exec # None /\ exec.tool = "pylint")
                 => \A i \in 1..Len(probes) :
                       probes[i].command = "mypy" => ~probes[i].exists

C12_Witness ==
    /\ Returned("runPythonDiagnostics")
    /\ probes = <<[command |-> "mypy", exists |-> FALSE],
                  [command |-> "pylint", exists |-> TRUE]>>
    /\ exec # None
    /\ exec.tool = "pylint"
    /\ exec.kind = "nonzero"
    /\ toolResult.tool = "pylint"
    /\ toolResult.errorCount = 1

\* C13: in every ToolResult of a parser or runner, errorCount is the number
\* of diagnostics of severity error, warningCount the number of severity
\* warning, the two add up to the number of diagnostics, and neither is
\* negative.
C13_CountsPartitionDiagnostics ==
    IsToolResult(toolResult)
        => LET ds == toolResult.diagnostics
               errors == {i \in 1..Len(ds) : ds[i].severity = "error"}
               warnings == {i \in 1..Len(ds) : ds[i].severity = "warning"}
           IN  /\ toolResult.errorCount = Cardinality(errors)
               /\ toolResult.warningCount = Cardinality(warnings)
               /\ toolResult.errorCount + toolResult.warningCount = Len(ds)
               /\ toolResult.errorCount >= 0
               /\ toolResult.warningCount >= 0

C13_Witness ==
    /\ Returned("runTscDiagnostics")
    /\ IsToolResult(toolResult)
    /\ Len(toolResult.diagnostics) = 2
    /\ toolResult.errorCount = 1
    /\ toolResult.warningCount = 1

\* C14: a ToolResult with `skipped` set has no diagnostics, zero counts and
\* success = TRUE, and the DirectoryDiagnosticResult built from it has strategy
\* 'skipped', success = TRUE and a summary holding the (non-empty) reason.
C14_SkippedIsNeverFailure ==
    (IsToolResult(toolResult) /\ toolResult.skipped # None)
        => /\ toolResult.diagnostics = <<>>
           /\ toolResult.errorCount = 0
           /\ toolResult.warningCount = 0
           /\ toolResult.success
           /\ toolResult.skipped.why # ""
           /\ pc = "done"
                 => /\ result.strategy = "skipped"
                    /\ result.success
                    /\ result.summary.skipped = toolResult.skipped

C14_Witness ==
    /\ Returned("runGoDiagnostics")
    /\ strategy = "go"
    /\ toolResult.skipped # None
    /\ toolResult.skipped.names = {"go.mod"}
    /\ result.strategy = "skipped"

\* The line decodes to a JSON object tagged reason = 'compiler-message'.
IsCompilerMessage(l) ==
    /\ l.shape = "json"
    /\ l.value.t = "object"
    /\ l.value.reason = "compiler-message"

\* A compiler message of level error or warning.
Retained(l) ==
    /\ IsCompilerMessage(l)
    /\ l.value.message.present
    /\ l.value.message.level \in {"error", "warning"}

\* A retained message whose `spans` member is not an array.
MalformedSpans(l) ==
    /\ Retained(l)
    /\ l.value.message.spans.present
    /\ ~l.value.message.spans.array

\* A retained message with a span marked primary.
HasPrimarySpan(l) ==
    /\ Retained(l)
    /\ l.value.message.spans.present
    /\ l.value.message.spans.array
    /\ \E i \in 1..Len(l.value.message.spans.items) :
          l.value.message.spans.items[i].is_primary

\* C15: parseRustOutput skips, without failing and without effect on the other
\* lines, every line that is not JSON, every JSON value not tagged
\* 'compiler-message' (non-objects included) and every message of a level other
\* than error or warning; each remaining line with a primary span yields
\* exactly one diagnostic.  (Texts holding a message with malformed spans are
\* left aside.)
C15_ForeignLinesAreSkipped ==
    (/\ pc \in {"done", "thrown"}
     /\ Called("parseRustOutput")
     /\ \A i \in 1..Len(exec.input) : ~MalformedSpans(exec.input[i]))
        => /\ pc = "done"
           /\ LET kept == SelectSeq(exec.input, HasPrimarySpan)
              IN  /\ Len(toolResult.diagnostics) = Len(kept)
                  /\ toolResult = parseRustOutput(kept)

\* The spans of a retained message (none when the member is absent).
SpansOf(l) ==
    IF l.value.message.spans.present /\ l.value.message.spans.array
    THEN l.value.message.spans.items
    ELSE <<>>

\* The diagnostic is located at the span.
LocatedAt(d, span) ==
    /\ d.file = span.file_name
    /\ d.line = span.line_start
    /\ d.column = span.column_start

\* C16: the diagnostics of parseRustOutput are, in order, those of the retained
\* messages that have a primary span; each is located at a span marked primary
\* of its message, wherever that span stands, and at no non-primary span; a
\* message without primary span, or without spans, gives no diagnostic.
C16_LocationIsPrimarySpan ==
    (pc = "done" /\ Called("parseRustOutput"))
        => LET located == SelectSeq(exec.input, HasPrimarySpan)
               ds == toolResult.diagnostics
           IN  /\ Len(ds) = Len(located)
               /\ \A k \in 1..Len(ds) :
                     LET spans == SpansOf(located[k])
                     IN  /\ \E i \in 1..Len(spans) :
                               spans[i].is_primary /\ LocatedAt(ds[k], spans[i])
                         /\ \A i \in 1..Len(spans) :
                               ~spans[i].is_primary => ~LocatedAt(ds[k], spans[i])

C16_Witness ==
    /\ pc = "done"
    /\ Called("parseRustOutput")
    /\ exec.input =
          <<SpannedMessage("error", JSpans(<<>>)),
            SpannedMessage("error", JSpans(<<JSpan("src/other.rs", 1, 1, FALSE),
                                             JSpan("src/main.rs", 10, 5, TRUE)>>))>>
    /\ Len(toolResult.diagnostics) = 1
    /\ toolResult.diagnostics[1].file = "src/main.rs"
    /\ toolResult.diagnostics[1].line = 10
    /\ toolResult.diagnostics[1].column = 5

\* Message codes whose first letter is E or F.
ErrorOrFatalCodes == {"E0001", "F0001"}

\* C17: parsePylintOutput gives severity error to exactly the diagnostics
\* whose code begins with E or F, and severity warning to those whose code
\* begins with any other letter (W, C, R).
C17_PylintSeverityByLetter ==
    (pc = "done" /\ Called("parsePylintOutput"))
        => \A k \in 1..Len(toolResult.diagnostics) :
              LET d == toolResult.diagnostics[k]
              IN  /\ (d.severity = "error") <=> (d.code \in ErrorOrFatalCodes)
                  /\ (d.severity = "warning") <=> (d.code \notin ErrorOrFatalCodes)

C17_Witness ==
    /\ pc = "done"
    /\ Called("parsePylintOutput")
    /\ exec.input = <<ColonLine("main.py", "F0001", ""), ColonLine("utils.py", "R0903", "")>>
    /\ Len(toolResult.diagnostics) = 2
    /\ toolResult.diagnostics[1].severity = "error"
    /\ toolResult.diagnostics[2].severity = "warning"

\* The log holds an event of the k-th discovered file.
Visited(k) == \E j \in 1..Len(lsp.log) : lsp.log[j].file = lsp.files[k]

\* Acquisition, open, wait and read all completed for the k-th file.
Completed(k) ==
    \E j \in 1..Len(lsp.log) :
        lsp.log[j] = [file |-> lsp.files[k], event |-> "read"]

\* C18: a failed acquisition, open or read of one file (or a missing session)
\* does not end the loop of runLspAggregatedDiagnostics: every discovered file
\* is visited, a file that did not complete contributes no diagnostic, and
\* filesChecked is the number of files that completed, at most the number
\* discovered.
C18_FailedFileIsSkipped ==
    /\ pc = "lsp" => \A k \in 1..(lsp.i - 1) : Visited(k)
    /\ lsp.step = "returned"
          => /\ pc = "done"
             /\ \A k \in 1..Len(lsp.files) :
                   /\ Visited(k)
                   /\ ~Completed(k)
                         => \A j \in 1..Len(toolResult.diagnostics) :
                               toolResult.diagnostics[j].file # lsp.files[k]
             /\ toolResult.filesChecked
                    = Cardinality({k \in 1..Len(lsp.files) : Completed(k)})
             /\ toolResult.filesChecked <= Len(lsp.files)

C18_Witness ==
    /\ lsp.step = "returned"
    /\ Len(lsp.files) = 2
    /\ ~Completed(1)
    /\ \E j \in 1..Len(lsp.log) : lsp.log[j] = [file |-> lsp.files[1], event |-> "opened"]
    /\ Completed(2)
    /\ toolResult.filesChecked = 1
    /\ Len(toolResult.diagnostics) = 2

\* Position of a file in discovery order.
DiscoveryIndex(file) == CHOOSE k \in 1..Len(lsp.files) : lsp.files[k] = file

\* Events that end the processing of a file.
FinalEvents == {"read", "failed", "no-client"}

\* The k-th file has been opened and its diagnostics not yet read.
BetweenOpenAndRead(k) ==
    /\ \E j \in 1..Len(lsp.log) :
          lsp.log[j] = [file |-> lsp.files[k], event |-> "opened"]
    /\ \A j \in 1..Len(lsp.log) :
          lsp.log[j].file = lsp.files[k] => lsp.log[j].event \notin FinalEvents

\* C19: the LSP fallback handles the discovered files one at a time in
\* discovery order: the events of the files never interleave, the acquisition
\* for a file starts only after the read (or failure) of the file before it,
\* at most one file is between open and read, and the aggregated diagnostics
\* follow the discovery order of their files.
C19_OneFileAtATime ==
    /\ \A j \in 1..Len(lsp.log) : \A h \in 1..(j - 1) :
          /\ DiscoveryIndex(lsp.log[h].file) <= DiscoveryIndex(lsp.log[j].file)
          /\ DiscoveryIndex(lsp.log[h].file) < DiscoveryIndex(lsp.log[j].file)
                => \E g \in h..(j - 1) :
                      /\ lsp.log[g].file = lsp.log[h].file
                      /\ lsp.log[g].event \in FinalEvents
    /\ (pc = "lsp" /\ lsp.step = "acquire" /\ lsp.i > 1)
          => /\ lsp.log # <<>>
             /\ lsp.log[Len(lsp.log)].file = lsp.files[lsp.i - 1]
             /\ lsp.log[Len(lsp.log)].event \in FinalEvents
    /\ Cardinality({k \in 1..Len(lsp.files) : BetweenOpenAndRead(k)}) <= 1
    /\ \A j \in 1..Len(lsp.allDiagnostics) : \A h \in 1..(j - 1) :
          DiscoveryIndex(lsp.allDiagnostics[h].file)
              <= DiscoveryIndex(lsp.allDiagnostics[j].file)

C19_Witness ==
    /\ lsp.step = "returned"
    /\ Len(lsp.files) = 2
    /\ Completed(1)
    /\ Completed(2)
    /\ Len(toolResult.diagnostics) = 3
    /\ toolResult.diagnostics[1].file = lsp.files[1]
    /\ toolResult.diagnostics[3].file = lsp.files[2]

\* Positions of the log holding a call of fn.
CallsOf(fn) == {j \in 1..Len(calls) : calls[j].fn = fn}

\* The elements of a list.
Elements(list) == {list[i] : i \in 1..Len(list)}

\* C20: the extension cache is empty until the first getAllSupportedExtensions
\* call, is filled by that call, stays filled across later reads without the
\* registry being read again, and is emptied by invalidateExtensionCache only;
\* over any sequence of reads and invalidations every read returns a list
\* with the same elements as the first read's.
C20_CacheLifecycle ==
    pc = "unit"
        => LET reads == CallsOf("getAllSupportedExtensions")
               invalidations == CallsOf("invalidateExtensionCache")
               \* a read at j that no later invalidation has undone
               Fills(j) == j \in reads /\ \A h \in invalidations : h < j
           IN  /\ (cachedExtensions # None) <=> (\E j \in reads : Fills(j))
               /\ \A j \in reads :
                     /\ calls[j].computed
                           <=> (\A h \in reads : h < j =>
                                   \E g \in invalidations : h < g /\ g < j)
                     /\ \A h \in reads :
                           Elements(calls[j].returned) = Elements(calls[h].returned)
                     /\ calls[j].returned # <<>>
               /\ cachedExtensions # None
                     => \E j \in reads : cachedExtensions.extensions = calls[j].returned

C20_Witness ==
    /\ pc = "unit"
    /\ Len(calls) = 4
    /\ calls[1].fn = "getAllSupportedExtensions"
    /\ calls[2].fn = "getAllSupportedExtensions"
    /\ calls[3].fn = "invalidateExtensionCache"
    /\ calls[4].fn = "getAllSupportedExtensions"
    /\ calls[1].computed
    /\ ~calls[2].computed
    /\ calls[4].computed
    /\ Len(calls[4].returned) = 50
    /\ cachedExtensions # None

\* C21: when another process removes the target path, replaces it by a file or
\* leaves a dangling symlink between the existence check, the is-a-directory
\* check and the path resolution, runDirectoryDiagnostics does not throw and
\* returns a skipped result with success = TRUE.  (The path is changed only in
\* that window, so a path that is no directory at the end was either never one
\* or was changed there.)
C21_RacedPathIsSkipped ==
    /\ ~(pc = "thrown" /\ calls = <<>>)
    /\ (pc = "done" /\ pathKind # "dir")
          => /\ result.strategy = "skipped"
             /\ result.success

\* A line of shape file:line:col: severity: message [code] with severity error
\* or warning, whatever the file.
IsSeverityLine(l) == l.shape = "colon" /\ l.tag \in {"error", "warning"}

\* C22: parseMypyOutput gives exactly one diagnostic for each input line of
\* shape file:line:col: severity: message [code] whose severity is error or
\* warning, in input order, and none for note lines or lines of another shape.
C22_MypyOneDiagnosticPerLine ==
    (pc = "done" /\ Called("parseMypyOutput"))
        => LET shaped == SelectSeq(exec.input, IsSeverityLine)
               ds == toolResult.diagnostics
           IN  /\ Len(ds) = Len(shaped)
               /\ \A k \in 1..Len(ds) :
                     /\ ds[k].file = shaped[k].file
                     /\ ds[k].line = shaped[k].line
                     /\ ds[k].column = shaped[k].col
                     /\ ds[k].severity = shaped[k].tag

\* C23: every diagnostic of parseGoOutput has severity warning; for every
\* input the result has errorCount = 0 and warningCount equal to the number of
\* diagnostics.
C23_GoFindingsAreWarnings ==
    (pc = "done" /\ Called("parseGoOutput"))
        => /\ \A k \in 1..Len(toolResult.diagnostics) :
                 toolResult.diagnostics[k].severity = "warning"
           /\ toolResult.errorCount = 0
           /\ toolResult.warningCount = Len(toolResult.diagnostics)

C23_Witness ==
    /\ pc = "done"
    /\ Called("parseGoOutput")
    /\ exec.input = <<ColonLine("main.go", "", ""), ColonLine("pkg/util.go", "", "")>>
    /\ Len(toolResult.diagnostics) = 2
    /\ toolResult.warningCount = 2

\* toolResult is what runLspAggregatedDiagnostics returned.
IsLspAggregationResult(r) == r # None /\ "filesChecked" \in DOMAIN r

\* C24: in every LspAggregationResult errorCount is the number of collected
\* diagnostics of severity code 1 and warningCount the number of code 2;
\* diagnostics of another severity stay in the sequence and are counted in
\* neither, so errorCount + warningCount <= number of diagnostics; success is
\* TRUE exactly when errorCount = 0.
C24_LspCountsBySeverityCode ==
    IsLspAggregationResult(toolResult)
        => LET ds == toolResult.diagnostics
               WithCode(c) == {j \in 1..Len(ds) : ds[j].diagnostic.severity = c}
           IN  /\ ds = lsp.allDiagnostics
               /\ toolResult.errorCount = Cardinality(WithCode(1))
               /\ toolResult.warningCount = Cardinality(WithCode(2))
               /\ toolResult.errorCount + toolResult.warningCount <= Len(ds)
               /\ toolResult.errorCount + toolResult.warningCount
                      = Len(ds) - Cardinality({j \in 1..Len(ds) :
                                                  ds[j].diagnostic.severity \notin {1, 2}})
               /\ toolResult.success <=> (toolResult.errorCount = 0)

C24_Witness ==
    /\ IsLspAggregationResult(toolResult)
    /\ Len(toolResult.diagnostics) = 3
    /\ toolResult.diagnostics[1].diagnostic.severity = 3
    /\ toolResult.errorCount = 1
    /\ toolResult.warningCount = 1
    /\ ~toolResult.success

\* C25: once the pre-flight checks have passed, the LSP path (explicit 'lsp',
\* or 'auto' with project type unknown) ends with strategy 'lsp', never
\* 'skipped' and never by throwing; when no file is discovered or no file gets
\* a session, the result is success = TRUE with 0 errors, 0 warnings and
\* filesChecked = 0.
C25_LspPathIsNeverSkipped ==
    (/\ resolvedDirectory # Unresolved
     /\ \/ strategy = "lsp"
        \/ strategy = "auto" /\ detectProjectType(markers) = "unknown")
        => /\ pc # "thrown"
           /\ pc = "done"
                 => /\ result.strategy = "lsp"
                    /\ (\A k \in 1..Len(lsp.files) : ~Completed(k))
                          => /\ result.success
                             /\ result.errorCount = 0
                             /\ result.warningCount = 0
                             /\ toolResult.filesChecked = 0
                             /\ result.summary.files = 0

C25_Witness ==
    /\ pc = "done"
    /\ strategy = "auto"
    /\ Len(lsp.files) = 2
    /\ \A j \in 1..Len(lsp.log) : lsp.log[j].event = "no-client"
    /\ result.strategy = "lsp"
    /\ result.success
    /\ toolResult.filesChecked = 0

\* C26: in one runPythonDiagnostics call, once mypy has been selected no other
\* tool is launched, however mypy ends (clean exit, diagnostics, silent crash,
\* timeout, or not found at launch), and the result's tool is 'mypy'; the tool
\* is 'none' only in the two skipped results returned before any launch.
C26_PythonToolChoiceIsFinal ==
    Returned("runPythonDiagnostics")
        => /\ (probes # <<>> /\ probes[1].command = "mypy" /\ probes[1].exists)
                 => /\ exec # None
                    /\ exec.tool = "mypy"
                    /\ exec.kind \in {"exit0", "nonzero", "timeout", "enoent"}
                    /\ toolResult.tool = "mypy"
                    /\ \A j \in 1..Len(probes) : probes[j].command # "pylint"
           /\ toolResult.tool = "none"
                 => /\ exec = None
                    /\ toolResult.skipped # None
                    /\ \/ toolResult.skipped.names = {"mypy", "pylint"}
                       \/ toolResult.skipped.names
                              = {"pyproject.toml", "requirements.txt", "setup.py"}
           /\ exec # None => toolResult.tool = exec.tool

C26_Witness ==
    /\ Returned("runPythonDiagnostics")
    /\ probes = <<[command |-> "mypy", exists |-> TRUE]>>
    /\ exec # None
    /\ exec.tool = "mypy"
    /\ exec.kind = "enoent"
    /\ toolResult.tool = "mypy"
    /\ toolResult.skipped # None
    /\ result.strategy = "skipped"

====
